---- MODULE Spec2Model ----
(***************************************************************************)
(* Model of src/app.py: the sequence comparison core of the genomics       *)
(* surveillance app (parse_fasta_from_upload, align_and_compare,           *)
(* compare_same_length, compute_risk_score and the /analyze handler).      *)
(*                                                                         *)
(* A str is the sequence of its Unicode code points.  Python floats are     *)
(* IEEE-754 binary64 values; they are modelled exactly, as a natural   *)
(* number mantissa (a little-endian sequence of 14-bit limbs) times a      *)
(* power of two, with round-to-nearest-even after every operation.         *)
(***************************************************************************)
EXTENDS Integers, Sequences, FiniteSets, TLC

VARIABLES
    pc,             \* position of the call: "call" before, then its outcome
    ref_file,       \* analyze: the reference file field of the request
    sample_file,    \* analyze: the sample file field
    ref_text,       \* analyze: the reference form text
    sample_text,    \* analyze: the sample form text
    ref_seq,        \* the reference sequence (None when absent)
    sample_seq,     \* the sample sequence (None when absent)
    aligned_ref,    \* first argument handed to compare_same_length
    aligned_sample, \* second argument handed to compare_same_length
    variants,       \* the variant list
    substitutions,  \* substitution count
    indels,         \* indel count
    ref_len,        \* reference length handed to compute_risk_score
    score,          \* result of compute_risk_score
    other_variants, \* a second variant list scored with the same counts
    other_score,    \* its score
    raised,         \* message of the exception align_and_compare raised
    response        \* the structure analyze returns

vars == <<pc, ref_file, sample_file, ref_text, sample_text, ref_seq, sample_seq, aligned_ref,
          aligned_sample, variants, substitutions, indels, ref_len, score,
          other_variants, other_score, raised, response>>

(***************************************************************************)
(* Bounds of the model.                                                    *)
(***************************************************************************)
MaxLen == 3         \* longest sequence handed to the comparison
MaxText == 3        \* longest form text of a request
MaxBytes == 2       \* longest upload of a request, in bytes
MaxVariants == 3    \* longest variant list handed to the scorer alone
MaxCount == 2       \* largest substitution / indel count handed to the scorer
MaxRefLen == 3      \* largest small reference length handed to the scorer

None == <<-1>>          \* Python's None, unlike every sequence of characters
Unbound == <<-2>>       \* a name the call never got to assign
NoError == ""           \* no exception raised

Max2(a, b) == IF a >= b THEN a ELSE b
Min2(a, b) == IF a <= b THEN a ELSE b

(***************************************************************************)
(* Text.  A character is its Unicode code point and a str the sequence of  *)
(* its code points; the bytes of an upload are numbers below 256.          *)
(***************************************************************************)
\* the printable ASCII characters from U+0020 to U+005F and from U+0061 to
\* U+007E, in code point order
PRINTABLE_LOW ==
    <<" ", "!", "\"", "#", "$", "%", "&", "'", "(", ")", "*", "+", ",", "-",
      ".", "/", "0", "1", "2", "3", "4", "5", "6", "7", "8", "9", ":", ";",
      "<", "=", ">", "?", "@", "A", "B", "C", "D", "E", "F", "G", "H", "I",
      "J", "K", "L", "M", "N", "O", "P", "Q", "R", "S", "T", "U", "V", "W",
      "X", "Y", "Z", "[", "\\", "]", "^", "_">>
PRINTABLE_HIGH ==
    <<"a", "b", "c", "d", "e", "f", "g", "h", "i", "j", "k", "l", "m", "n",
      "o", "p", "q", "r", "s", "t", "u", "v", "w", "x", "y", "z", "{", "|",
      "}", "~">>

\* the code point of a printable ASCII character
ord(c) ==
    IF \E i \in DOMAIN PRINTABLE_LOW : PRINTABLE_LOW[i] = c
    THEN 31 + (CHOOSE i \in DOMAIN PRINTABLE_LOW : PRINTABLE_LOW[i] = c)
    ELSE 96 + (CHOOSE i \in DOMAIN PRINTABLE_HIGH : PRINTABLE_HIGH[i] = c)

\* the str written as a tuple of printable ASCII characters
str(chars) == [i \in DOMAIN chars |-> ord(chars[i])]

GAP == ord("-")
HEADER_MARK == ord(">")
SPACE == ord(" ")
LF == 10            \* "\n"
CR == 13            \* "\r"
VT == 11            \* "\x0b"

(***************************************************************************)
(* Natural numbers of any size: little-endian limbs below Base, no         *)
(* leading zero limb; << >> is zero.                                       *)
(***************************************************************************)
LimbBits == 14
Base == 2^LimbBits
MantBits == 53      \* significand width of a binary64

Pow2[i \in 0..30] == 2^i

RECURSIVE Trim(_)
Trim(X) == IF X = << >> THEN X
           ELSE IF X[Len(X)] = 0 THEN Trim(SubSeq(X, 1, Len(X) - 1)) ELSE X

\* column sums (each below 2^30) to limbs
RECURSIVE Carry(_, _)
Carry(cols, c) ==
    IF cols = << >> THEN (IF c = 0 THEN << >> ELSE <<c % Base>> \o Carry(<< >>, c \div Base))
    ELSE LET t == cols[1] + c
         IN <<t % Base>> \o Carry(Tail(cols), t \div Base)

FromInt(a) == Carry(<< >>, a)

Limb(X, i) == IF i >= 1 /\ i <= Len(X) THEN X[i] ELSE 0

RECURSIVE ColSum(_, _, _, _)
ColSum(X, Y, k, i) ==
    IF i > Len(X) THEN 0
    ELSE X[i] * Limb(Y, k - i + 1) + ColSum(X, Y, k, i + 1)

BigMul(X, Y) ==
    IF X = << >> \/ Y = << >> THEN << >>
    ELSE Trim(Carry([k \in 1..(Len(X) + Len(Y) - 1) |-> ColSum(X, Y, k, 1)], 0))

BigAdd(X, Y) ==
    Trim(Carry([k \in 1..Max2(Len(X), Len(Y)) |-> Limb(X, k) + Limb(Y, k)], 0))

RECURSIVE SmallBitLen(_)
SmallBitLen(a) == IF a = 0 THEN 0 ELSE 1 + SmallBitLen(a \div 2)

BitLen(X) == IF X = << >> THEN 0
             ELSE (Len(X) - 1) * LimbBits + SmallBitLen(X[Len(X)])

\* bit i (from 0) of X
Bit(X, i) == (Limb(X, (i \div LimbBits) + 1) \div Pow2[i % LimbBits]) % 2

\* X mod 2^i /= 0
LowNonzero(X, i) ==
    \/ \E j \in 1..Min2(Len(X), i \div LimbBits) : X[j] /= 0
    \/ Limb(X, (i \div LimbBits) + 1) % Pow2[i % LimbBits] /= 0

\* floor(X / 2^k)
ShiftRight(X, k) ==
    LET a == k \div LimbBits
        b == k % LimbBits
    IN IF a >= Len(X) THEN << >>
       ELSE Trim([j \in 1..(Len(X) - a) |->
                    (X[a + j] \div Pow2[b])
                    + (Limb(X, a + j + 1) % Pow2[b]) * Pow2[LimbBits - b]])

\* X * 2^k
ShiftLeft(X, k) ==
    IF X = << >> THEN << >>
    ELSE [j \in 1..(k \div LimbBits) |-> 0]
         \o Trim(Carry([j \in 1..Len(X) |-> X[j] * Pow2[k % LimbBits]], 0))

\* the next n bits of the binary expansion of r / b after the bits acc, for
\* 0 <= r < b < 2^30 (so that 2 * r stays below 2^31), and the remainder left
RECURSIVE FracBits(_, _, _, _)
FracBits(r, b, n, acc) ==
    IF n = 0 THEN [bits |-> acc, r |-> r]
    ELSE IF 2 * r >= b THEN FracBits(2 * r - b, b, n - 1, 2 * acc + 1)
    ELSE FracBits(2 * r, b, n - 1, 2 * acc)

\* the next n limbs of the binary expansion of r / b after the limbs made,
\* lowest limb first, and the remainder left (once the remainder is 0 the
\* limbs that follow are 0)
RECURSIVE FracLimbs(_, _, _, _)
FracLimbs(r, b, n, limbs) ==
    LET next == FracBits(r, b, LimbBits, 0)
    IN IF n = 0 THEN [limbs |-> limbs, r |-> r]
       ELSE IF next.r = 0
       THEN [limbs |-> [j \in 1..(n - 1) |-> 0] \o <<next.bits>> \o limbs,
             r |-> 0]
       ELSE FracLimbs(next.r, b, n - 1, <<next.bits>> \o limbs)

(***************************************************************************)
(* binary64 values >= 0: [m |-> mantissa, e |-> exponent], value m * 2^e,  *)
(* m below 2^53 (or exactly 2^53).  Round53 rounds an exact result to      *)
(* nearest, ties to even; sticky says that the exact result is a little    *)
(* above X * 2^e, and then X has more than 53 bits.                        *)
(***************************************************************************)
Round53(X, e, sticky) ==
    LET n == BitLen(X)
        k == n - MantBits
    IN IF k <= 0 THEN [m |-> X, e |-> e]
       ELSE LET Q == ShiftRight(X, k)
                half == Bit(X, k - 1) = 1
                rest == LowNonzero(X, k - 1) \/ sticky
                up == half /\ (rest \/ Bit(Q, 0) = 1)
            IN [m |-> IF up THEN BigAdd(Q, <<1>>) ELSE Q, e |-> e + k]

FZero == [m |-> << >>, e |-> 0]
FOne == [m |-> <<1>>, e |-> 0]
FromIntF(a) == Round53(FromInt(a), 0, FALSE)

\* a / b for integers 0 <= a < 2^31 and 0 < b < 2^30, correctly rounded as
\* Python's int / int is: floor(a * 2^84 / b) has at least 54 bits, and the
\* remainder is the sticky bit
FracLimbCount == 6
Fdiv(a, b) ==
    IF a = 0 THEN FZero
    ELSE LET frac == FracLimbs(a % b, b, FracLimbCount, << >>)
         IN Round53(Trim(frac.limbs \o FromInt(a \div b)),
                    0 - FracLimbCount * LimbBits, frac.r /= 0)

Fadd(x, y) ==
    IF x.m = << >> THEN y
    ELSE IF y.m = << >> THEN x
    ELSE LET e == Min2(x.e, y.e)
         IN Round53(BigAdd(ShiftLeft(x.m, x.e - e), ShiftLeft(y.m, y.e - e)), e, FALSE)

Fmul(x, y) ==
    IF x.m = << >> \/ y.m = << >> THEN FZero
    ELSE Round53(BigMul(x.m, y.m), x.e + y.e, FALSE)

\* min(cap, int(x)) for cap < Base
TruncCapped(x, cap) ==
    LET I == IF x.e >= 0 THEN ShiftLeft(x.m, x.e) ELSE ShiftRight(x.m, 0 - x.e)
    IN IF I = << >> THEN 0
       ELSE IF Len(I) >= 2 THEN cap
       ELSE Min2(cap, I[1])

(***************************************************************************)
(* compute_risk_score                                                      *)
(***************************************************************************)
WINDOW == 50
SCALE == 200
MAX_SCORE == 100

\* positions.sort()
SortedPositions(positions) == SortSeq(positions, LAMBDA a, b : a < b)

\* mutant: the window test is strict
RECURSIVE window_end_strict(_, _, _)
window_end_strict(positions, i, j) ==
    IF j <= Len(positions) /\ positions[j] - positions[i] < WINDOW
    THEN window_end_strict(positions, i, j + 1)
    ELSE j

\* the inner while: the first j from i on that is outside the window of i
RECURSIVE window_end(_, _, _)
window_end(positions, i, j) ==
    IF j <= Len(positions) /\ positions[j] - positions[i] <= WINDOW
    THEN window_end(positions, i, j + 1)
    ELSE j

\* the for loop over i, max_within carried in acc
RECURSIVE max_within(_, _, _)
max_within(positions, i, acc) ==
    IF i > Len(positions) THEN acc
    ELSE max_within(positions, i + 1,
                    Max2(acc, window_end(positions, i, i) - i))

\* mutant: clustering is ignored
cluster_factor_flat(positions) == FOne

cluster_factor(positions) ==
    IF Len(positions) >= 2
    THEN Fadd(FOne, Fdiv(max_within(SortedPositions(positions), 1, 0),
                         Max2(1, Len(positions))))
    ELSE FOne

\* mutant: the upper clamp is lost
compute_risk_score_no_cap(vs, subs, ind, rlen) ==
    IF rlen = 0 THEN 0
    ELSE LET base == Fdiv(subs + 2 * ind, Max2(1, rlen))
             positions == [i \in 1..Len(vs) |-> vs[i].pos]
             raw == Fmul(Fmul(base, cluster_factor(positions)), FromIntF(SCALE))
         IN Max2(0, TruncCapped(raw, Base - 1))

compute_risk_score(vs, subs, ind, rlen) ==
    IF rlen = 0 THEN 0
    ELSE LET base == Fdiv(subs + 2 * ind, Max2(1, rlen))
             positions == [i \in 1..Len(vs) |-> vs[i].pos]
             raw == Fmul(Fmul(base, cluster_factor(positions)), FromIntF(SCALE))
         IN Max2(0, TruncCapped(raw, MAX_SCORE))

(***************************************************************************)
(* compare_same_length                                                     *)
(***************************************************************************)
\* mutant: "and" for "or" in the gap test
var_type_both_gaps(r, s) == IF r = GAP /\ s = GAP THEN "indel" ELSE "substitution"

\* lines 135-140: the type of the variant recorded for unequal symbols
var_type(r, s) == IF r = GAP \/ s = GAP THEN "indel" ELSE "substitution"

\* line 141: both branches of the conditional are pos + 1
display_pos(pos, r) == IF r /= GAP THEN pos + 1 ELSE pos + 1

\* mutant: pos advances at reference-side gaps too
advance_always(pos, r) == pos + 1

\* lines 132-133 and 143-144: pos counts the reference residues consumed
advance(pos, r) == IF r /= GAP THEN pos + 1 ELSE pos

\* one iteration of the for loop on the pair (r, s)
compare_step(st, r, s) ==
    IF r = s
    THEN [st EXCEPT !.pos = advance(st.pos, r)]
    ELSE LET t == var_type(r, s)
         IN [variants |-> Append(st.variants,
                                 [pos |-> display_pos(st.pos, r), ref |-> r,
                                  alt |-> s, type |-> t]),
             substitutions |-> st.substitutions + (IF t = "substitution" THEN 1 ELSE 0),
             indels |-> st.indels + (IF t = "indel" THEN 1 ELSE 0),
             pos |-> advance(st.pos, r)]

\* zip(ref, sample) stops at the shorter argument
RECURSIVE compare_loop(_, _, _, _)
compare_loop(ref, sample, i, st) ==
    IF i > Min2(Len(ref), Len(sample)) THEN st
    ELSE compare_loop(ref, sample, i + 1, compare_step(st, ref[i], sample[i]))

compare_same_length(ref, sample) ==
    LET st == compare_loop(ref, sample, 1,
                           [variants |-> << >>, substitutions |-> 0,
                            indels |-> 0, pos |-> 0])
    IN [variants |-> st.variants, substitutions |-> st.substitutions,
        indels |-> st.indels]

(***************************************************************************)
(* pairwise2.align.globalxx(ref, sample, one_alignment_only=True): match   *)
(* reward 1, mismatch 0, no gap penalty.  The library returns the empty    *)
(* list when either sequence is empty.  Otherwise it returns one alignment *)
(* of maximal score; which one, among several of that score, is the        *)
(* library's tie-break, so the model allows every one of them.             *)
(***************************************************************************)
\* mutant: a mismatch is rewarded like a match
match_score_any(a, b) == 1

match_score(a, b) == IF a = b THEN 1 ELSE 0

\* one row of the score matrix from the row above it, entries 0..Len(sample)
RECURSIVE score_row(_, _, _, _)
score_row(above, a, sample, row) ==
    LET j == Len(row)
    IN IF j > Len(sample) THEN row
       ELSE score_row(above, a, sample,
                Append(row, Max2(above[j] + match_score(a, sample[j]),
                                 Max2(above[j + 1], row[j]))))

\* the rows 0..Len(ref) of the score matrix
RECURSIVE score_matrix(_, _, _)
score_matrix(ref, sample, rows) ==
    LET i == Len(rows)
    IN IF i > Len(ref) THEN rows
       ELSE score_matrix(ref, sample,
                Append(rows, score_row(rows[i], ref[i], sample, <<0>>)))

first_row(sample) == [j \in 1..(Len(sample) + 1) |-> 0]

\* the alignments of ref[1..i] and sample[1..j] that the traceback from
\* cell (i, j) of the score matrix M can produce
RECURSIVE traceback(_, _, _, _, _)
traceback(ref, sample, M, i, j) ==
    IF i = 0 /\ j = 0 THEN {<<<< >>, << >>>>}
    ELSE (IF i > 0 /\ j > 0
             /\ M[i][j] + match_score(ref[i], sample[j]) = M[i + 1][j + 1]
          THEN {<<Append(p[1], ref[i]), Append(p[2], sample[j])>> :
                    p \in traceback(ref, sample, M, i - 1, j - 1)}
          ELSE {})
         \cup
         (IF i > 0 /\ M[i][j + 1] = M[i + 1][j + 1]
          THEN {<<Append(p[1], ref[i]), Append(p[2], GAP)>> :
                    p \in traceback(ref, sample, M, i - 1, j)}
          ELSE {})
         \cup
         (IF j > 0 /\ M[i + 1][j] = M[i + 1][j + 1]
          THEN {<<Append(p[1], GAP), Append(p[2], sample[j])>> :
                    p \in traceback(ref, sample, M, i, j - 1)}
          ELSE {})

globalxx(ref, sample) ==
    IF ref = << >> \/ sample = << >> THEN {}
    ELSE traceback(ref, sample,
                   score_matrix(ref, sample, <<first_row(sample)>>),
                   Len(ref), Len(sample))

(***************************************************************************)
(* align_and_compare: the set of its outcomes, a raised exception or the   *)
(* pair handed to compare_same_length together with what that returns.     *)
(***************************************************************************)
Compared(a_ref, a_sample) ==
    [raised |-> NoError, aligned_ref |-> a_ref, aligned_sample |-> a_sample,
     result |-> compare_same_length(a_ref, a_sample)]

Raised(e) ==
    [raised |-> e, aligned_ref |-> << >>, aligned_sample |-> << >>,
     result |-> [variants |-> << >>, substitutions |-> 0, indels |-> 0]]

\* mutant: the inputs go to the comparison unaligned on every path
align_and_compare_unaligned(ref, sample) == {Compared(ref, sample)}

\* mutant: the equal-length test is lost, every pair is aligned
align_and_compare_always_aligns(ref, sample) ==
    LET alns == globalxx(ref, sample)
    IN IF alns = {} THEN {Raised("list index out of range")}
       ELSE {Compared(aln[1], aln[2]) : aln \in alns}

align_and_compare(ref, sample) ==
    IF Len(ref) = Len(sample) THEN {Compared(ref, sample)}
    ELSE LET alns == globalxx(ref, sample)
         IN IF alns = {} THEN {Raised("list index out of range")}
            ELSE {Compared(aln[1], aln[2]) : aln \in alns}

(***************************************************************************)
(* parse_fasta_from_upload.  The result is None or a sequence, or an       *)
(* exception.  Biopython is not part of the repository; what its FASTA     *)
(* reader and its Seq do depends on the release that is installed.         *)
(***************************************************************************)
\* the releases of the library, by what they do with the two things the
\* function hands them: OLDER skips text before the first '>' line and its
\* Seq holds any str; MIDDLE skips such text too, but its Seq encodes a str
\* as ASCII; NEWER raises on such text and its Seq encodes a str as ASCII
RELEASES == {"OLDER", "MIDDLE", "NEWER"}
leading_text_raises(release) == release = "NEWER"
seq_is_ascii(release) == release /= "OLDER"

Returns(v) == [value |-> v, raised |-> NoError]
Raises(e) == [value |-> Unbound, raised |-> e]

\* the characters str.strip, str.rstrip and str.split take for whitespace
WHITESPACE ==
    (9..13) \cup (28..32) \cup {133, 160, 5760} \cup (8192..8202)
        \cup {8232, 8233, 8239, 8287, 12288}

IsSpace(ch) == ch \in WHITESPACE

\* str.upper, character by character (Unicode 14.0.0, the tables of the
\* interpreter).  A run <<lo, hi, step, delta>> says that the code points lo,
\* lo + step, ..., hi each become the code point delta further on.
UPPER_RUNS ==
    {<<97, 122, 1, -32>>, <<181, 181, 1, 743>>, <<224, 246, 1, -32>>,
     <<248, 254, 1, -32>>, <<255, 255, 1, 121>>, <<257, 303, 2, -1>>,
     <<305, 305, 1, -232>>, <<307, 311, 2, -1>>, <<314, 328, 2, -1>>,
     <<331, 375, 2, -1>>, <<378, 382, 2, -1>>, <<383, 383, 1, -300>>,
     <<384, 384, 1, 195>>, <<387, 389, 2, -1>>, <<392, 392, 1, -1>>,
     <<396, 396, 1, -1>>, <<402, 402, 1, -1>>, <<405, 405, 1, 97>>,
     <<409, 409, 1, -1>>, <<410, 410, 1, 163>>, <<414, 414, 1, 130>>,
     <<417, 421, 2, -1>>, <<424, 424, 1, -1>>, <<429, 429, 1, -1>>,
     <<432, 432, 1, -1>>, <<436, 438, 2, -1>>, <<441, 441, 1, -1>>,
     <<445, 445, 1, -1>>, <<447, 447, 1, 56>>, <<453, 453, 1, -1>>,
     <<454, 454, 1, -2>>, <<456, 456, 1, -1>>, <<457, 457, 1, -2>>,
     <<459, 459, 1, -1>>, <<460, 460, 1, -2>>, <<462, 476, 2, -1>>,
     <<477, 477, 1, -79>>, <<479, 495, 2, -1>>, <<498, 498, 1, -1>>,
     <<499, 499, 1, -2>>, <<501, 501, 1, -1>>, <<505, 543, 2, -1>>,
     <<547, 563, 2, -1>>, <<572, 572, 1, -1>>, <<575, 576, 1, 10815>>,
     <<578, 578, 1, -1>>, <<583, 591, 2, -1>>, <<592, 592, 1, 10783>>,
     <<593, 593, 1, 10780>>, <<594, 594, 1, 10782>>, <<595, 595, 1, -210>>,
     <<596, 596, 1, -206>>, <<598, 599, 1, -205>>, <<601, 601, 1, -202>>,
     <<603, 603, 1, -203>>, <<604, 604, 1, 42319>>, <<608, 608, 1, -205>>,
     <<609, 609, 1, 42315>>, <<611, 611, 1, -207>>, <<613, 613, 1, 42280>>,
     <<614, 614, 1, 42308>>, <<616, 616, 1, -209>>, <<617, 617, 1, -211>>,
     <<618, 618, 1, 42308>>, <<619, 619, 1, 10743>>, <<620, 620, 1, 42305>>,
     <<623, 623, 1, -211>>, <<625, 625, 1, 10749>>, <<626, 626, 1, -213>>,
     <<629, 629, 1, -214>>, <<637, 637, 1, 10727>>, <<640, 640, 1, -218>>,
     <<642, 642, 1, 42307>>, <<643, 643, 1, -218>>, <<647, 647, 1, 42282>>,
     <<648, 648, 1, -218>>, <<649, 649, 1, -69>>, <<650, 651, 1, -217>>,
     <<652, 652, 1, -71>>, <<658, 658, 1, -219>>, <<669, 669, 1, 42261>>,
     <<670, 670, 1, 42258>>, <<837, 837, 1, 84>>, <<881, 883, 2, -1>>,
     <<887, 887, 1, -1>>, <<891, 893, 1, 130>>, <<940, 940, 1, -38>>,
     <<941, 943, 1, -37>>, <<945, 961, 1, -32>>, <<962, 962, 1, -31>>,
     <<963, 971, 1, -32>>, <<972, 972, 1, -64>>, <<973, 974, 1, -63>>,
     <<976, 976, 1, -62>>, <<977, 977, 1, -57>>, <<981, 981, 1, -47>>,
     <<982, 982, 1, -54>>, <<983, 983, 1, -8>>, <<985, 1007, 2, -1>>,
     <<1008, 1008, 1, -86>>, <<1009, 1009, 1, -80>>, <<1010, 1010, 1, 7>>,
     <<1011, 1011, 1, -116>>, <<1013, 1013, 1, -96>>, <<1016, 1016, 1, -1>>,
     <<1019, 1019, 1, -1>>, <<1072, 1103, 1, -32>>, <<1104, 1119, 1, -80>>,
     <<1121, 1153, 2, -1>>, <<1163, 1215, 2, -1>>, <<1218, 1230, 2, -1>>,
     <<1231, 1231, 1, -15>>, <<1233, 1327, 2, -1>>, <<1377, 1414, 1, -48>>,
     <<4304, 4346, 1, 3008>>, <<4349, 4351, 1, 3008>>, <<5112, 5117, 1, -8>>,
     <<7296, 7296, 1, -6254>>, <<7297, 7297, 1, -6253>>,
     <<7298, 7298, 1, -6244>>, <<7299, 7300, 1, -6242>>,
     <<7301, 7301, 1, -6243>>, <<7302, 7302, 1, -6236>>,
     <<7303, 7303, 1, -6181>>, <<7304, 7304, 1, 35266>>,
     <<7545, 7545, 1, 35332>>, <<7549, 7549, 1, 3814>>,
     <<7566, 7566, 1, 35384>>, <<7681, 7829, 2, -1>>, <<7835, 7835, 1, -59>>,
     <<7841, 7935, 2, -1>>, <<7936, 7943, 1, 8>>, <<7952, 7957, 1, 8>>,
     <<7968, 7975, 1, 8>>, <<7984, 7991, 1, 8>>, <<8000, 8005, 1, 8>>,
     <<8017, 8023, 2, 8>>, <<8032, 8039, 1, 8>>, <<8048, 8049, 1, 74>>,
     <<8050, 8053, 1, 86>>, <<8054, 8055, 1, 100>>, <<8056, 8057, 1, 128>>,
     <<8058, 8059, 1, 112>>, <<8060, 8061, 1, 126>>, <<8112, 8113, 1, 8>>,
     <<8126, 8126, 1, -7205>>, <<8144, 8145, 1, 8>>, <<8160, 8161, 1, 8>>,
     <<8165, 8165, 1, 7>>, <<8526, 8526, 1, -28>>, <<8560, 8575, 1, -16>>,
     <<8580, 8580, 1, -1>>, <<9424, 9449, 1, -26>>, <<11312, 11359, 1, -48>>,
     <<11361, 11361, 1, -1>>, <<11365, 11365, 1, -10795>>,
     <<11366, 11366, 1, -10792>>, <<11368, 11372, 2, -1>>,
     <<11379, 11379, 1, -1>>, <<11382, 11382, 1, -1>>,
     <<11393, 11491, 2, -1>>, <<11500, 11502, 2, -1>>,
     <<11507, 11507, 1, -1>>, <<11520, 11557, 1, -7264>>,
     <<11559, 11559, 1, -7264>>, <<11565, 11565, 1, -7264>>,
     <<42561, 42605, 2, -1>>, <<42625, 42651, 2, -1>>,
     <<42787, 42799, 2, -1>>, <<42803, 42863, 2, -1>>,
     <<42874, 42876, 2, -1>>, <<42879, 42887, 2, -1>>,
     <<42892, 42892, 1, -1>>, <<42897, 42899, 2, -1>>,
     <<42900, 42900, 1, 48>>, <<42903, 42921, 2, -1>>,
     <<42933, 42947, 2, -1>>, <<42952, 42954, 2, -1>>,
     <<42961, 42961, 1, -1>>, <<42967, 42969, 2, -1>>,
     <<42998, 42998, 1, -1>>, <<43859, 43859, 1, -928>>,
     <<43888, 43967, 1, -38864>>, <<65345, 65370, 1, -32>>,
     <<66600, 66639, 1, -40>>, <<66776, 66811, 1, -40>>,
     <<66967, 67003, 2, -39>>, <<66968, 66976, 2, -39>>,
     <<66980, 66992, 2, -39>>, <<66996, 67000, 2, -39>>,
     <<67004, 67004, 1, -39>>, <<68800, 68850, 1, -64>>,
     <<71872, 71903, 1, -32>>, <<93792, 93823, 1, -32>>,
     <<125218, 125251, 1, -34>>}

\* the characters str.upper turns into more than one character
UPPER_SPECIAL ==
    {<<223, <<83, 83>>>>, <<329, <<700, 78>>>>, <<496, <<74, 780>>>>,
     <<912, <<921, 776, 769>>>>, <<944, <<933, 776, 769>>>>,
     <<1415, <<1333, 1362>>>>, <<7830, <<72, 817>>>>, <<7831, <<84, 776>>>>,
     <<7832, <<87, 778>>>>, <<7833, <<89, 778>>>>, <<7834, <<65, 702>>>>,
     <<8016, <<933, 787>>>>, <<8018, <<933, 787, 768>>>>,
     <<8020, <<933, 787, 769>>>>, <<8022, <<933, 787, 834>>>>,
     <<8064, <<7944, 921>>>>, <<8065, <<7945, 921>>>>,
     <<8066, <<7946, 921>>>>, <<8067, <<7947, 921>>>>,
     <<8068, <<7948, 921>>>>, <<8069, <<7949, 921>>>>,
     <<8070, <<7950, 921>>>>, <<8071, <<7951, 921>>>>,
     <<8072, <<7944, 921>>>>, <<8073, <<7945, 921>>>>,
     <<8074, <<7946, 921>>>>, <<8075, <<7947, 921>>>>,
     <<8076, <<7948, 921>>>>, <<8077, <<7949, 921>>>>,
     <<8078, <<7950, 921>>>>, <<8079, <<7951, 921>>>>,
     <<8080, <<7976, 921>>>>, <<8081, <<7977, 921>>>>,
     <<8082, <<7978, 921>>>>, <<8083, <<7979, 921>>>>,
     <<8084, <<7980, 921>>>>, <<8085, <<7981, 921>>>>,
     <<8086, <<7982, 921>>>>, <<8087, <<7983, 921>>>>,
     <<8088, <<7976, 921>>>>, <<8089, <<7977, 921>>>>,
     <<8090, <<7978, 921>>>>, <<8091, <<7979, 921>>>>,
     <<8092, <<7980, 921>>>>, <<8093, <<7981, 921>>>>,
     <<8094, <<7982, 921>>>>, <<8095, <<7983, 921>>>>,
     <<8096, <<8040, 921>>>>, <<8097, <<8041, 921>>>>,
     <<8098, <<8042, 921>>>>, <<8099, <<8043, 921>>>>,
     <<8100, <<8044, 921>>>>, <<8101, <<8045, 921>>>>,
     <<8102, <<8046, 921>>>>, <<8103, <<8047, 921>>>>,
     <<8104, <<8040, 921>>>>, <<8105, <<8041, 921>>>>,
     <<8106, <<8042, 921>>>>, <<8107, <<8043, 921>>>>,
     <<8108, <<8044, 921>>>>, <<8109, <<8045, 921>>>>,
     <<8110, <<8046, 921>>>>, <<8111, <<8047, 921>>>>,
     <<8114, <<8122, 921>>>>, <<8115, <<913, 921>>>>, <<8116, <<902, 921>>>>,
     <<8118, <<913, 834>>>>, <<8119, <<913, 834, 921>>>>,
     <<8124, <<913, 921>>>>, <<8130, <<8138, 921>>>>, <<8131, <<919, 921>>>>,
     <<8132, <<905, 921>>>>, <<8134, <<919, 834>>>>,
     <<8135, <<919, 834, 921>>>>, <<8140, <<919, 921>>>>,
     <<8146, <<921, 776, 768>>>>, <<8147, <<921, 776, 769>>>>,
     <<8150, <<921, 834>>>>, <<8151, <<921, 776, 834>>>>,
     <<8162, <<933, 776, 768>>>>, <<8163, <<933, 776, 769>>>>,
     <<8164, <<929, 787>>>>, <<8166, <<933, 834>>>>,
     <<8167, <<933, 776, 834>>>>, <<8178, <<8186, 921>>>>,
     <<8179, <<937, 921>>>>, <<8180, <<911, 921>>>>, <<8182, <<937, 834>>>>,
     <<8183, <<937, 834, 921>>>>, <<8188, <<937, 921>>>>,
     <<64256, <<70, 70>>>>, <<64257, <<70, 73>>>>, <<64258, <<70, 76>>>>,
     <<64259, <<70, 70, 73>>>>, <<64260, <<70, 70, 76>>>>,
     <<64261, <<83, 84>>>>, <<64262, <<83, 84>>>>, <<64275, <<1348, 1350>>>>,
     <<64276, <<1348, 1333>>>>, <<64277, <<1348, 1339>>>>,
     <<64278, <<1358, 1350>>>>, <<64279, <<1348, 1341>>>>}

InRun(ch, run) ==
    run[1] <= ch /\ ch <= run[2] /\ (ch - run[1]) % run[3] = 0

\* str.upper on one character: the characters it becomes
upper(ch) ==
    IF \E u \in UPPER_SPECIAL : u[1] = ch
    THEN (CHOOSE u \in UPPER_SPECIAL : u[1] = ch)[2]
    ELSE IF \E run \in UPPER_RUNS : InRun(ch, run)
    THEN <<ch + (CHOOSE run \in UPPER_RUNS : InRun(ch, run))[4]>>
    ELSE <<ch>>

\* content.strip()
RECURSIVE strip(_)
strip(content) ==
    IF content = << >> THEN content
    ELSE IF IsSpace(content[1]) THEN strip(Tail(content))
    ELSE IF IsSpace(content[Len(content)])
         THEN strip(SubSeq(content, 1, Len(content) - 1))
    ELSE content

\* seq.upper()
RECURSIVE upper_all(_)
upper_all(s) == IF s = << >> THEN << >> ELSE upper(s[1]) \o upper_all(Tail(s))

\* "".join(content.split()).upper()
raw_sequence(content) ==
    upper_all(SelectSeq(content, LAMBDA ch : ~IsSpace(ch)))

\* bytes.decode("utf-8"): the length of the encoding a lead byte starts (0
\* when the byte starts none), the second bytes it takes, the continuation
\* bytes, and the code point of a well-formed encoding
IsContinuation(b) == 128 <= b /\ b <= 191

utf8_width(b) ==
    IF b < 128 THEN 1
    ELSE IF 194 <= b /\ b <= 223 THEN 2
    ELSE IF 224 <= b /\ b <= 239 THEN 3
    ELSE IF 240 <= b /\ b <= 244 THEN 4
    ELSE 0

utf8_second(b, c) ==
    IF b = 224 THEN 160 <= c /\ c <= 191
    ELSE IF b = 237 THEN 128 <= c /\ c <= 159
    ELSE IF b = 240 THEN 144 <= c /\ c <= 191
    ELSE IF b = 244 THEN 128 <= c /\ c <= 143
    ELSE IsContinuation(c)

utf8_starts(data) ==
    LET n == utf8_width(data[1])
    IN /\ n > 0 /\ Len(data) >= n
       /\ n >= 2 => utf8_second(data[1], data[2])
       /\ \A k \in 3..n : IsContinuation(data[k])

utf8_code_point(data) ==
    LET n == utf8_width(data[1])
    IN IF n = 1 THEN data[1]
       ELSE IF n = 2 THEN (data[1] - 192) * 64 + (data[2] - 128)
       ELSE IF n = 3 THEN (data[1] - 224) * 4096 + (data[2] - 128) * 64
                          + (data[3] - 128)
       ELSE (data[1] - 240) * 262144 + (data[2] - 128) * 4096
            + (data[3] - 128) * 64 + (data[4] - 128)

\* whether decode("utf-8") raises UnicodeDecodeError
RECURSIVE utf8_valid(_)
utf8_valid(data) ==
    \/ data = << >>
    \/ /\ utf8_starts(data)
       /\ utf8_valid(SubSeq(data, utf8_width(data[1]) + 1, Len(data)))

RECURSIVE utf8_decode(_)
utf8_decode(data) ==
    IF data = << >> THEN << >>
    ELSE <<utf8_code_point(data)>>
         \o utf8_decode(SubSeq(data, utf8_width(data[1]) + 1, Len(data)))

\* decode("latin-1"): every byte is the code point it encodes
latin1_decode(data) == [i \in DOMAIN data |-> data[i]]

\* file_storage.read() with the stream at offset pos: the bytes that are left
read(file_storage, pos) ==
    SubSeq(file_storage.stream, pos + 1, Len(file_storage.stream))

\* the text of an upload.  The first read() takes the whole stream; when it
\* is not UTF-8 the second read(), of the same stream, has nothing left
upload_content(file_storage) ==
    LET data == read(file_storage, 0)
    IN IF utf8_valid(data) THEN utf8_decode(data)
       ELSE latin1_decode(read(file_storage, Len(data)))

\* the lines of content, without their line ends
RECURSIVE split_lines(_, _)
split_lines(content, line) ==
    IF content = << >> THEN <<line>>
    ELSE IF content[1] = LF THEN <<line>> \o split_lines(Tail(content), << >>)
    ELSE split_lines(Tail(content), Append(line, content[1]))

IsHeader(line) == line /= << >> /\ line[1] = HEADER_MARK

\* line.rstrip()
RECURSIVE rstrip(_)
rstrip(line) ==
    IF line /= << >> /\ IsSpace(line[Len(line)])
    THEN rstrip(SubSeq(line, 1, Len(line) - 1))
    ELSE line

\* the sequence of the record whose header is the line before lines[k]: the
\* lines from k up to the next header, each stripped on the right, joined,
\* blanks and carriage returns removed
RECURSIVE record_body(_, _)
record_body(lines, k) ==
    IF k > Len(lines) \/ IsHeader(lines[k]) THEN << >>
    ELSE SelectSeq(rstrip(lines[k]), LAMBDA ch : ch \notin {SPACE, CR})
         \o record_body(lines, k + 1)

\* the sequences of the records from line k on, in order
RECURSIVE record_bodies(_, _)
record_bodies(lines, k) ==
    IF k > Len(lines) THEN << >>
    ELSE IF IsHeader(lines[k])
         THEN <<record_body(lines, k + 1)>> \o record_bodies(lines, k + 1)
    ELSE record_bodies(lines, k + 1)

IsAscii(data) == \A i \in DOMAIN data : data[i] < 128

\* str(e) of the UnicodeEncodeError that encoding data as ASCII raises: it
\* names the first run of characters that are not ASCII
HEX == <<"0", "1", "2", "3", "4", "5", "6", "7", "8", "9", "a", "b", "c",
         "d", "e", "f">>

RECURSIVE hex(_, _)
hex(n, width) ==
    IF width = 0 THEN ""
    ELSE hex(n \div 16, width - 1) \o HEX[(n % 16) + 1]

escape(ch) ==
    IF ch < 256 THEN "\\x" \o hex(ch, 2)
    ELSE IF ch < 65536 THEN "\\u" \o hex(ch, 4)
    ELSE "\\U" \o hex(ch, 8)

ascii_error(data) ==
    LET bad == {i \in DOMAIN data : data[i] >= 128}
        start == CHOOSE i \in bad : \A j \in bad : i <= j
        end == CHOOSE i \in bad :
                   /\ \A j \in start..i : j \in bad
                   /\ (i + 1) \notin bad
    IN IF start = end
       THEN "'ascii' codec can't encode character '" \o escape(data[start])
            \o "' in position " \o ToString(start - 1)
            \o ": ordinal not in range(128)"
       ELSE "'ascii' codec can't encode characters in position "
            \o ToString(start - 1) \o "-" \o ToString(end - 1)
            \o ": ordinal not in range(128)"

\* Seq(data)
Seq_of(release, data) ==
    IF seq_is_ascii(release) /\ ~IsAscii(data) THEN Raises(ascii_error(data))
    ELSE Returns(data)

\* list(SeqIO.parse(handle, "fasta")): the sequences of the records, unless
\* the reader raises (on text before the first header, or on a record whose
\* sequence its Seq does not take)
SeqIO_parse(release, content) ==
    LET lines == split_lines(content, << >>)
        recs == record_bodies(lines, 1)
    IN IF leading_text_raises(release) /\ ~IsHeader(lines[1])
       THEN [raised |-> TRUE, recs |-> << >>]
       ELSE IF seq_is_ascii(release) /\ \E i \in DOMAIN recs : ~IsAscii(recs[i])
       THEN [raised |-> TRUE, recs |-> << >>]
       ELSE [raised |-> FALSE, recs |-> recs]

\* parse_fasta_from_upload under one release of the library
parse_fasta_in(release, file_storage, text_field) ==
    LET content == strip(IF file_storage.given /\ file_storage.filename /= ""
                         THEN upload_content(file_storage)
                         ELSE text_field)
        parsed == SeqIO_parse(release, content)
    IN IF content = << >> THEN Returns(None)
       ELSE IF parsed.raised \/ parsed.recs = << >>
       THEN Seq_of(release, raw_sequence(content))
       ELSE Returns(parsed.recs[1])

parse_fasta_from_upload(file_storage, text_field) ==
    {parse_fasta_in(release, file_storage, text_field) : release \in RELEASES}

(***************************************************************************)
(* analyze: the set of outcomes of one request.                            *)
(***************************************************************************)
MISSING == "Reference or sample sequence missing."

NoCall == Raised(NoError)

Outcome(rs, ss, call, rl, sc, resp) ==
    [ref_seq |-> rs, sample_seq |-> ss, call |-> call, ref_len |-> rl,
     score |-> sc, response |-> resp]

analyze_core(rs, ss, call) ==
    IF call.raised /= NoError
    THEN Outcome(rs, ss, call, 0, 0, [error |-> call.raised])
    ELSE LET res == call.result
             rl == Len(rs)
             sc == compute_risk_score(res.variants, res.substitutions, res.indels, rl)
         IN Outcome(rs, ss, call, rl, sc,
                    [variants |-> res.variants,
                     summary |-> [total_variants |-> Len(res.variants),
                                  substitutions |-> res.substitutions,
                                  indels |-> res.indels,
                                  reference_length |-> rl,
                                  risk_score |-> sc]])

\* analyze under one release of the library
analyze_in(release, rf, sf, rt, st) ==
    LET r == parse_fasta_in(release, rf, rt)
        s == parse_fasta_in(release, sf, st)
    IN IF r.raised /= NoError
       THEN {Outcome(Unbound, Unbound, NoCall, 0, 0, [error |-> r.raised])}
       ELSE IF s.raised /= NoError
       THEN {Outcome(r.value, Unbound, NoCall, 0, 0, [error |-> s.raised])}
       ELSE IF r.value = None \/ s.value = None
       THEN {Outcome(r.value, s.value, NoCall, 0, 0, [error |-> MISSING])}
       ELSE {analyze_core(r.value, s.value, call)
                : call \in align_and_compare(r.value, s.value)}

analyze(rf, sf, rt, st) ==
    UNION {analyze_in(release, rf, sf, rt, st) : release \in RELEASES}

(***************************************************************************)
(* Inputs of the model.                                                    *)
(***************************************************************************)
Residues == {ord("A"), ord("C"), ord("G")}
Symbols == Residues \cup {GAP}
\* the characters of the submitted texts: a header mark, a line end, an upper
\* and a lower case residue, and a vertical tab (whitespace to str.strip and
\* str.split); the sample text draws from fewer of them
TextChars == {HEADER_MARK, LF, ord("A"), ord("c"), VT}
SampleChars == {HEADER_MARK, ord("A"), VT}
\* the bytes of the uploads: a header mark, a residue, and the two bytes that
\* encode U+00FF, a lower case letter; neither of the two is UTF-8 alone
FileBytes == {HEADER_MARK, ord("A"), 195, 191}
SampleBytes == {ord("A"), 195, 191}

SeqsUpTo(S, n) == UNION {[1..k -> S] : k \in 0..n}

\* request.files.get(...): no such field, a field with no file chosen, or an
\* uploaded file
NoFile == [given |-> FALSE, filename |-> "", stream |-> << >>]
Unnamed == [given |-> TRUE, filename |-> "", stream |-> << >>]
Upload(data) == [given |-> TRUE, filename |-> "upload.fasta", stream |-> data]

\* the file and the text of one sequence of a request: a text alone, or a
\* file field next to a one-letter text
Fields(chars, bytes) ==
    {[file |-> NoFile, text |-> t] : t \in SeqsUpTo(chars, MaxText)}
        \cup {[file |-> f, text |-> <<ord("A")>>]
                 : f \in {Unnamed} \cup {Upload(d) : d \in SeqsUpTo(bytes, MaxBytes)}}

\* variant positions at the edges of the clustering window
PosValues == {1, 2, 1 + WINDOW, 2 + WINDOW, 3 + WINDOW}
ClusterValues == {1, 2, 2 + WINDOW, 3 + 2 * WINDOW}
RefLens == (0..MaxRefLen) \cup {10, 1000}
ClusterRefLens == {1, 10, 1000}

AsVariants(ps) == [i \in 1..Len(ps) |-> [pos |-> ps[i]]]
Positions(vs) == [i \in 1..Len(vs) |-> vs[i].pos]
IsSorted(ps) == \A i \in 1..(Len(ps) - 1) : ps[i] <= ps[i + 1]
Progression(start, step, n) == [i \in 1..n |-> start + (i - 1) * step]

NoResult ==
    /\ variants = << >> /\ substitutions = 0 /\ indels = 0
    /\ score = 0 /\ other_score = 0 /\ raised = NoError /\ response = << >>

(***************************************************************************)
(* SpecCompare: compare_same_length on every pair of equal-length          *)
(* sequences over the residues and the gap marker.  Such pairs reach it    *)
(* from the alignment, and from equal-length inputs that carry '-'         *)
(* themselves (a pre-aligned FASTA), which are compared as they are.       *)
(***************************************************************************)
InitCompare ==
    /\ pc = "call"
    /\ \E n \in 0..MaxLen : \E r \in [1..n -> Symbols], s \in [1..n -> Symbols] :
          aligned_ref = r /\ aligned_sample = s
    /\ ref_file = NoFile /\ sample_file = NoFile
    /\ ref_text = << >> /\ sample_text = << >>
    /\ ref_seq = << >> /\ sample_seq = << >>
    /\ ref_len = 0 /\ other_variants = << >>
    /\ NoResult

CompareSameLength ==
    /\ pc = "call"
    /\ LET res == compare_same_length(aligned_ref, aligned_sample)
       IN /\ variants' = res.variants
          /\ substitutions' = res.substitutions
          /\ indels' = res.indels
    /\ pc' = "compared"
    /\ UNCHANGED <<ref_file, sample_file, ref_text, sample_text, ref_seq,
                   sample_seq, aligned_ref,
                   aligned_sample, ref_len, score, other_variants, other_score,
                   raised, response>>

SpecCompare == InitCompare /\ [][CompareSameLength]_vars

(***************************************************************************)
(* SpecAlign: align_and_compare on every pair of gap-free sequences.       *)
(***************************************************************************)
InitAlign ==
    /\ pc = "call"
    /\ ref_seq \in SeqsUpTo(Residues, MaxLen)
    /\ sample_seq \in SeqsUpTo(Residues, MaxLen)
    /\ ref_file = NoFile /\ sample_file = NoFile
    /\ ref_text = << >> /\ sample_text = << >>
    /\ aligned_ref = << >> /\ aligned_sample = << >>
    /\ ref_len = 0 /\ other_variants = << >>
    /\ NoResult

AlignAndCompare ==
    /\ pc = "call"
    /\ \E out \in align_and_compare(ref_seq, sample_seq) :
          /\ pc' = IF out.raised = NoError THEN "compared" ELSE "raised"
          /\ raised' = out.raised
          /\ aligned_ref' = out.aligned_ref
          /\ aligned_sample' = out.aligned_sample
          /\ variants' = out.result.variants
          /\ substitutions' = out.result.substitutions
          /\ indels' = out.result.indels
    /\ UNCHANGED <<ref_file, sample_file, ref_text, sample_text, ref_seq,
                   sample_seq, ref_len, score,
                   other_variants, other_score, response>>

SpecAlign == InitAlign /\ [][AlignAndCompare]_vars

(***************************************************************************)
(* SpecScore: compute_risk_score on variant lists, counts and reference    *)
(* lengths chosen independently.                                           *)
(***************************************************************************)
InitScore ==
    /\ pc = "call"
    /\ \E ps \in SeqsUpTo(PosValues, MaxVariants) : variants = AsVariants(ps)
    /\ substitutions \in 0..MaxCount
    /\ indels \in 0..MaxCount
    /\ ref_len \in RefLens
    /\ ref_file = NoFile /\ sample_file = NoFile
    /\ ref_text = << >> /\ sample_text = << >>
    /\ ref_seq = << >> /\ sample_seq = << >>
    /\ aligned_ref = << >> /\ aligned_sample = << >>
    /\ other_variants = << >>
    /\ score = 0 /\ other_score = 0 /\ raised = NoError /\ response = << >>

ComputeRiskScore ==
    /\ pc = "call"
    /\ score' = compute_risk_score(variants, substitutions, indels, ref_len)
    /\ pc' = "scored"
    /\ UNCHANGED <<ref_file, sample_file, ref_text, sample_text, ref_seq,
                   sample_seq, aligned_ref,
                   aligned_sample, variants, substitutions, indels, ref_len,
                   other_variants, other_score, raised, response>>

SpecScore == InitScore /\ [][ComputeRiskScore]_vars

(***************************************************************************)
(* SpecCluster: compute_risk_score on two variant lists of one size, with  *)
(* the same counts and reference length.  The lists are small ones at the  *)
(* window's edges, or ten positions in arithmetic progression in a         *)
(* reference of length 1000 (packed: steps 0..2, spread: steps over 50).   *)
(***************************************************************************)
SmallLists == {ps \in SeqsUpTo(ClusterValues, MaxVariants) : IsSorted(ps)}
PackedLists == {Progression(start, step, 10) : start \in {1, 400, 982}, step \in 0..2}
SpreadLists == {Progression(start, step, 10) : start \in {1, 50}, step \in {51, 100}}
                  \cup {Progression(1, 111, 10)}

InitCluster ==
    /\ pc = "call"
    /\ \/ /\ \E ps \in SmallLists, qs \in SmallLists :
                /\ Len(ps) = Len(qs)
                /\ variants = AsVariants(ps)
                /\ other_variants = AsVariants(qs)
          /\ substitutions \in 0..MaxCount
          /\ indels \in 0..1
          /\ ref_len \in ClusterRefLens
       \/ /\ \E ps \in PackedLists \cup SpreadLists, qs \in PackedLists \cup SpreadLists :
                /\ variants = AsVariants(ps)
                /\ other_variants = AsVariants(qs)
          /\ substitutions = 10
          /\ indels = 0
          /\ ref_len = 1000
    /\ ref_file = NoFile /\ sample_file = NoFile
    /\ ref_text = << >> /\ sample_text = << >>
    /\ ref_seq = << >> /\ sample_seq = << >>
    /\ aligned_ref = << >> /\ aligned_sample = << >>
    /\ score = 0 /\ other_score = 0 /\ raised = NoError /\ response = << >>

ComputeBoth ==
    /\ pc = "call"
    /\ score' = compute_risk_score(variants, substitutions, indels, ref_len)
    /\ other_score' = compute_risk_score(other_variants, substitutions, indels, ref_len)
    /\ pc' = "scored"
    /\ UNCHANGED <<ref_file, sample_file, ref_text, sample_text, ref_seq,
                   sample_seq, aligned_ref,
                   aligned_sample, variants, substitutions, indels, ref_len,
                   other_variants, raised, response>>

SpecCluster == InitCluster /\ [][ComputeBoth]_vars

(***************************************************************************)
(* Spec: one request to /analyze, the two texts as the form delivers them. *)
(***************************************************************************)
Init ==
    /\ pc = "call"
    /\ \E r \in Fields(TextChars, FileBytes), s \in Fields(SampleChars, SampleBytes) :
          /\ ref_file = r.file /\ ref_text = r.text
          /\ sample_file = s.file /\ sample_text = s.text
    /\ ref_seq = << >> /\ sample_seq = << >>
    /\ aligned_ref = << >> /\ aligned_sample = << >>
    /\ ref_len = 0 /\ other_variants = << >>
    /\ NoResult

Analyze ==
    /\ pc = "call"
    /\ \E out \in analyze(ref_file, sample_file, ref_text, sample_text) :
          /\ ref_seq' = out.ref_seq
          /\ sample_seq' = out.sample_seq
          /\ raised' = out.call.raised
          /\ aligned_ref' = out.call.aligned_ref
          /\ aligned_sample' = out.call.aligned_sample
          /\ variants' = out.call.result.variants
          /\ substitutions' = out.call.result.substitutions
          /\ indels' = out.call.result.indels
          /\ ref_len' = out.ref_len
          /\ score' = out.score
          /\ response' = out.response
    /\ pc' = "responded"
    /\ UNCHANGED <<ref_file, sample_file, ref_text, sample_text, other_variants,
                   other_score>>

Next == Analyze

Spec == Init /\ [][Next]_vars

(***************************************************************************)
(* Properties.  What the properties expect is stated on the inputs by set  *)
(* comprehension, not by the loops of the code.                            *)
(***************************************************************************)
SetMax(S) == CHOOSE x \in S : \A y \in S : y <= x
Indices(n) == [i \in 1..n |-> i]
Degap(a) == SelectSeq(a, LAMBDA ch : ch /= GAP)

\* the indices of the scanned pair, in order, where rule Kind records a variant
RecordedAt(Kind(_, _)) ==
    SelectSeq(Indices(Min2(Len(aligned_ref), Len(aligned_sample))),
              LAMBDA i : Kind(aligned_ref[i], aligned_sample[i]) /= "none")

\* the variants, without their positions, that rule Kind asks for
ExpectedBy(Kind(_, _)) ==
    LET at == RecordedAt(Kind)
    IN [k \in 1..Len(at) |->
          [ref |-> aligned_ref[at[k]], alt |-> aligned_sample[at[k]],
           type |-> Kind(aligned_ref[at[k]], aligned_sample[at[k]])]]

Shapes(vs) == [k \in 1..Len(vs) |-> [ref |-> vs[k].ref, alt |-> vs[k].alt,
                                     type |-> vs[k].type]]

CountType(vs, t) == Cardinality({k \in 1..Len(vs) : vs[k].type = t})

\* the rule as C1 words it: a pair of gap markers is an indel
ClaimedKind(r, s) ==
    IF r = s /\ r /= GAP /\ s /= GAP THEN "none"
    ELSE IF r = GAP \/ s = GAP THEN "indel"
    ELSE "substitution"

\* the rule with equal symbols, gap markers included, recording nothing
EqualSkipsKind(r, s) ==
    IF r = s THEN "none"
    ELSE IF r = GAP \/ s = GAP THEN "indel"
    ELSE "substitution"

\* C1 as stated: at every index of the scanned pair, equal non-gap symbols
\* record nothing, otherwise a gap marker on either side (both sides
\* included) records exactly one indel, otherwise exactly one substitution.
C1_AsStated ==
    pc = "compared" => Shapes(variants) = ExpectedBy(ClaimedKind)

\* C1 amended: at every index of the scanned pair, equal symbols (two gap
\* markers included) record nothing; unequal symbols record exactly one
\* variant, an indel when either is the gap marker, else a substitution; the
\* counts returned are the numbers of variants of each type.
C1_Classification ==
    pc = "compared" =>
        /\ Shapes(variants) = ExpectedBy(EqualSkipsKind)
        /\ substitutions = CountType(variants, "substitution")
        /\ indels = CountType(variants, "indel")

C1_Witness ==
    /\ pc = "compared"
    /\ \E i \in 1..Len(aligned_ref) : aligned_ref[i] = GAP /\ aligned_sample[i] = GAP
    /\ indels >= 1
    /\ substitutions >= 1

\* the position the spec gives the variant at alignment index i: one more
\* than the number of reference residues before i
RefCoordinate(i) ==
    1 + Cardinality({j \in 1..(i - 1) : aligned_ref[j] /= GAP})

\* C9: the positions of the variant list are non-decreasing in emission
\* order; each is 1 plus the number of non-gap reference symbols at earlier
\* alignment indices; variants at adjacent reference-side gaps share one
\* position; a variant at a non-gap reference symbol is followed only by
\* strictly larger positions.
C9_Monotone ==
    pc = "compared" =>
        LET at == RecordedAt(EqualSkipsKind)
        IN /\ Len(variants) = Len(at)
           /\ \A k \in 1..Len(variants) : variants[k].pos = RefCoordinate(at[k])
           /\ \A k, l \in 1..Len(variants) :
                 k < l => /\ variants[k].pos <= variants[l].pos
                          /\ variants[k].ref /= GAP => variants[k].pos < variants[l].pos
           /\ \A k \in 1..(Len(variants) - 1) :
                 (at[k + 1] = at[k] + 1 /\ variants[k].ref = GAP
                     /\ variants[k + 1].ref = GAP)
                 => variants[k + 1].pos = variants[k].pos

C9_Witness ==
    /\ pc = "compared"
    /\ Len(variants) = 3
    /\ variants[1].ref /= GAP
    /\ variants[2].ref = GAP /\ variants[3].ref = GAP
    /\ variants[1].pos < variants[2].pos
    /\ variants[2].pos = variants[3].pos

\* the subsequence of s at the index set I
SubseqAt(s, I) ==
    LET at == SelectSeq(Indices(Len(s)), LAMBDA i : i \in I)
    IN [k \in 1..Len(at) |-> s[at[k]]]

Subsequences(s) == {SubseqAt(s, I) : I \in SUBSET (1..Len(s))}

\* length of the longest common subsequence
LCSLength(a, b) ==
    SetMax({Len(c) : c \in Subsequences(a) \cap Subsequences(b)})

\* columns where both symbols are the same residue
MatchColumns(a, b) ==
    Cardinality({i \in 1..Min2(Len(a), Len(b)) : a[i] = b[i] /\ a[i] /= GAP})

\* C2: for inputs of different lengths, the pair handed to the extractor is
\* an alignment of the two inputs whose number of matching columns is the
\* length of their longest common subsequence, the most any gap placement
\* can reach.
C2_MaxMatches ==
    (pc = "compared" /\ Len(ref_seq) /= Len(sample_seq)) =>
        /\ Degap(aligned_ref) = ref_seq
        /\ Degap(aligned_sample) = sample_seq
        /\ MatchColumns(aligned_ref, aligned_sample) = LCSLength(ref_seq, sample_seq)

C2_Witness ==
    /\ pc = "compared"
    /\ Len(ref_seq) /= Len(sample_seq)
    /\ LCSLength(ref_seq, sample_seq) >= 1
    /\ LCSLength(ref_seq, sample_seq) < Min2(Len(ref_seq), Len(sample_seq))
    /\ MatchColumns(aligned_ref, aligned_sample) = LCSLength(ref_seq, sample_seq)

\* C3: the pair handed to the extractor has two members of one length, and
\* that length is at least the length of the longer input, on the
\* equal-length path and on the alignment path.
C3_LengthInvariant ==
    pc = "compared" =>
        /\ Len(aligned_ref) = Len(aligned_sample)
        /\ Len(aligned_ref) >= Max2(Len(ref_seq), Len(sample_seq))

C3_Witness ==
    /\ pc = "compared"
    /\ Len(ref_seq) /= Len(sample_seq)
    /\ Len(aligned_ref) = Len(aligned_sample)
    /\ Len(aligned_ref) > Max2(Len(ref_seq), Len(sample_seq))

\* the indices where two sequences of one length differ, in order
Differing(a, b) == SelectSeq(Indices(Len(a)), LAMBDA i : a[i] /= b[i])

\* C4: inputs of equal length are compared unchanged, index by index: the
\* call ends without an exception, the pair compared is the input pair,
\* indels = 0, substitutions is the number of differing indices, and the
\* variants are the differing indices in order, each a substitution at
\* pos = its 1-based index (0-based index + 1).
C4_IdentityPath ==
    (pc /= "call" /\ Len(ref_seq) = Len(sample_seq)) =>
        LET d == Differing(ref_seq, sample_seq)
        IN /\ pc = "compared"
           /\ aligned_ref = ref_seq
           /\ aligned_sample = sample_seq
           /\ indels = 0
           /\ substitutions = Len(d)
           /\ variants = [k \in 1..Len(d) |->
                            [pos |-> d[k], ref |-> ref_seq[d[k]],
                             alt |-> sample_seq[d[k]], type |-> "substitution"]]

\* equal lengths, a variant reported, and a gapped alignment would have had
\* more matching columns than the index-by-index comparison
C4_Witness ==
    /\ pc = "compared"
    /\ Len(ref_seq) = Len(sample_seq)
    /\ substitutions >= 2
    /\ LCSLength(ref_seq, sample_seq) > MatchColumns(ref_seq, sample_seq)

\* C6 as stated: with exactly one input empty the call ends without an
\* exception, the pair compared has the length of the non-empty input, the
\* empty side is all gap markers and every symbol of the other side is
\* reported as an indel; with both empty the pair is empty and no variant
\* is reported.
C6_AsStated ==
    (pc /= "call" /\ (ref_seq = << >> \/ sample_seq = << >>)) =>
        LET n == Max2(Len(ref_seq), Len(sample_seq))
        IN /\ pc = "compared"
           /\ raised = NoError
           /\ Len(aligned_ref) = n /\ Len(aligned_sample) = n
           /\ Degap(aligned_ref) = ref_seq
           /\ Degap(aligned_sample) = sample_seq
           /\ Len(variants) = n
           /\ indels = n
           /\ \A k \in 1..Len(variants) : variants[k].type = "indel"

\* absent: no sequence, or a sequence of length 0
Absent(s) == s = None \/ s = << >>

\* C7 as stated: when the reference or the sample is absent after ingestion
\* (None, or a parsed sequence of length 0), the response is exactly
\* {error: MISSING} and no alignment, extraction or scoring has run.
C7_AsStated ==
    (pc = "responded" /\ (Absent(ref_seq) \/ Absent(sample_seq))) =>
        response = [error |-> MISSING]

\* C5: compute_risk_score returns an integer in [0, 100] for every variant
\* list, every pair of non-negative counts and every reference length, and
\* 0 when the reference length is 0.
C5_ScoreBounds ==
    pc = "scored" =>
        /\ score \in 0..MAX_SCORE
        /\ ref_len = 0 => score = 0

\* the density alone is over the cap and the score is the cap
C5_Witness ==
    /\ pc = "scored"
    /\ ref_len >= 1
    /\ SCALE * (substitutions + 2 * indels) > MAX_SCORE * ref_len
    /\ score = MAX_SCORE

\* the largest number of variant positions q with p <= q <= p + 50, over the
\* variant positions p
MaxWindowCount(ps) ==
    SetMax({0} \cup {Cardinality({k \in 1..Len(ps) : ps[i] <= ps[k] /\ ps[k] <= ps[i] + 50})
                        : i \in 1..Len(ps)})

\* the claimed value before truncation, 200 * ((substitutions + 2 * indels) / L)
\* * clusterFactor, as a fraction of two integers: clusterFactor is 1 with
\* fewer than 2 variants and 1 + maxWindowCount / n = (n + maxWindowCount) / n
\* otherwise
RawNumerator(ps, subs, ind) ==
    200 * (subs + 2 * ind)
        * (IF Len(ps) < 2 THEN 1 ELSE Len(ps) + MaxWindowCount(ps))
RawDenominator(ps, L) == L * (IF Len(ps) < 2 THEN 1 ELSE Len(ps))

Clamp(x) == IF x > 100 THEN 100 ELSE IF x < 0 THEN 0 ELSE x

\* clamp(truncate(200 * ((substitutions + 2 * indels) / L) * clusterFactor), 0, 100)
ScoreFormula(ps, subs, ind, L) ==
    Clamp(RawNumerator(ps, subs, ind) \div RawDenominator(ps, L))

\* whether the value before truncation is a whole number
RawIsWhole(ps, subs, ind, L) ==
    RawNumerator(ps, subs, ind) % RawDenominator(ps, L) = 0

Packed(ps) == \A k, l \in 1..Len(ps) : ps[l] - ps[k] < 20
\* positions pairwise more than 50 apart
Spread(ps) ==
    \A k, l \in 1..Len(ps) : k /= l => (ps[l] - ps[k] > 50 \/ ps[k] - ps[l] > 50)

\* C8: with reference length 1000, 10 substitutions and no indel, 10
\* positions within 20 consecutive reference positions score strictly
\* higher than 10 positions pairwise more than 50 apart; and for the same
\* counts and reference length, of two lists of one size the one with the
\* larger maximum window count never scores lower.
C8_ClusterScoresHigher ==
    pc = "scored" =>
        LET ps == Positions(variants)
            qs == Positions(other_variants)
        IN /\ (/\ ref_len = 1000 /\ substitutions = 10 /\ indels = 0
               /\ Len(ps) = 10 /\ Len(qs) = 10
               /\ Packed(ps) /\ Spread(qs))
              => score > other_score
           /\ (Len(ps) = Len(qs) /\ MaxWindowCount(ps) >= MaxWindowCount(qs))
              => score >= other_score

C8_Witness ==
    /\ pc = "scored"
    /\ ref_len = 1000 /\ substitutions = 10 /\ indels = 0
    /\ Len(variants) = 10 /\ Len(other_variants) = 10
    /\ Packed(Positions(variants))
    /\ Spread(Positions(other_variants))
    /\ score > other_score

====
